---- MODULE Spec2Model ----
(***************************************************************************)
(* indydb: the engine (src/src/db.rs), its in-memory table                 *)
(* (src/src/memtable.rs), the on-disk table writer and reader              *)
(* (src/src/table.rs) and the table cache (src/src/cache.rs), modelled as  *)
(* application threads running against the background flush thread.        *)
(***************************************************************************)
EXTENDS Integers, Sequences, FiniteSets, TLC

(* ---------------------------------------------------------------------- *)
(* Bounds                                                                  *)
(* ---------------------------------------------------------------------- *)
\* number of distinct one-byte keys the application uses
NumKeys == 2
\* number of distinct one-byte values the application uses
NumVals == 2
\* cap on the number of put/delete calls over the life of a directory
MaxWrites == 3
\* cap on the number of put/delete calls when several threads share one engine
MaxConcurrentWrites == 5
\* cap on the number of get calls issued on one engine
MaxGets == 2
\* cap on the number of DB::open calls on the directory
MaxOpens == 2
\* cap on the number of I/O failures injected into the flush thread
MaxFaults == 1

(* ---------------------------------------------------------------------- *)
(* Parameters of the engine under test                                     *)
(* ---------------------------------------------------------------------- *)
\* DBParams.write_buffer_size used by the modelled application
write_buffer_size == 2
\* capacity handed to LRUCache::new by DB::open
cache_size == 1

Keys == {<<k>> : k \in 1..NumKeys}
Vals == {<<10 + v>> : v \in 1..NumVals}

(* ---------------------------------------------------------------------- *)
(* Option values: << >> is None, <<x>> is Some(x)                          *)
(* ---------------------------------------------------------------------- *)
None == << >>
Some(x) == <<x>>
IsSome(o) == Len(o) = 1
Unwrap(o) == o[1]

\* an RwLock whose write guard was dropped by a panicking thread: it keeps its
\* content, and read() and write() return a PoisonError from then on
PoisonedLock(o) == <<o, "poisoned">>
IsPoisoned(l) == Len(l) = 2

(* ---------------------------------------------------------------------- *)
(* memtable.rs                                                             *)
(* ---------------------------------------------------------------------- *)
MemValueValue(v) == [tag |-> 0, val |-> v]
MemValueDelete == [tag |-> 1]

\* MemValue::encode
MemValueEncode(mv) == mv.tag

\* MemTable::new: a table is a function from the keys it holds to MemValue
MemTableNew == << >>

MemTableInsert(t, key, mv) ==
    [k \in (DOMAIN t) \cup {key} |-> IF k = key THEN mv ELSE t[k]]

\* MemTable::get
MemTableGet(t, key) == IF key \in DOMAIN t THEN Some(t[key]) ELSE None

\* MemTable::put
MemTablePut(t, key, value) == MemTableInsert(t, key, MemValueValue(value))

\* MemTable::delete
MemTableDelete(t, key) == MemTableInsert(t, key, MemValueDelete)

\* MemTable::size
MemTableSize(t) == Cardinality(DOMAIN t)

\* MemTable::is_empty
MemTableIsEmpty(t) == DOMAIN t = {}

(* ---------------------------------------------------------------------- *)
(* table.rs: byte level                                                    *)
(* ---------------------------------------------------------------------- *)
\* the k low-order bytes of n, most significant first
RECURSIVE BigEndian(_, _)
BigEndian(n, k) ==
    IF k = 0 THEN << >> ELSE BigEndian(n \div 256, k - 1) \o <<n % 256>>

\* write_u64::<BigEndian>
WriteU64(n) == BigEndian(n, 8)

\* read_u64::<BigEndian> of an 8-byte slice
RECURSIVE ReadU64Acc(_, _, _)
ReadU64Acc(b, i, acc) ==
    IF i > 8 THEN acc ELSE ReadU64Acc(b, i + 1, acc * 256 + b[i])
ReadU64(b) == ReadU64Acc(b, 1, 0)

\* TableBuilder::encode: <data len><data bytes>
Encode(data) == WriteU64(Len(data)) \o data

\* mutant of TableBuilder::new: the writer starts at id 0 whatever count was stored
TableBuilderNewZero(file_no) ==
    [file_no |-> 0, data |-> << >>, index |-> << >>, offset |-> 0]

\* TableBuilder::new
TableBuilderNew(file_no) ==
    [file_no |-> file_no, data |-> << >>, index |-> << >>, offset |-> 0]

\* mutant of TableBuilder::add: the running offset leaves out the 8-byte
\* length prefix of the value
TableBuilderAddNoPrefix(b, key, mv) ==
    IF mv.tag = 0
    THEN [b EXCEPT !.index = b.index \o Encode(key) \o <<MemValueEncode(mv)>>
                                     \o WriteU64(b.offset),
                   !.data = b.data \o Encode(mv.val),
                   !.offset = b.offset + Len(mv.val)]
    ELSE [b EXCEPT !.index = b.index \o Encode(key) \o <<MemValueEncode(mv)>>]

\* TableBuilder::add
TableBuilderAdd(b, key, mv) ==
    IF mv.tag = 0
    THEN [b EXCEPT !.index = b.index \o Encode(key) \o <<MemValueEncode(mv)>>
                                     \o WriteU64(b.offset),
                   !.data = b.data \o Encode(mv.val),
                   !.offset = b.offset + 8 + Len(mv.val)]
    ELSE [b EXCEPT !.index = b.index \o Encode(key) \o <<MemValueEncode(mv)>>]

\* the for loop of the flush thread: add every entry of the drained table,
\* in the iteration order `order` (a sequence of the table's keys)
RECURSIVE AddAll(_, _, _)
AddAll(b, t, order) ==
    IF order = << >> THEN b
    ELSE AddAll(TableBuilderAdd(b, Head(order), t[Head(order)]), t, Tail(order))

\* the iteration orders into_iter may expose for a table
Orders(t) ==
    {o \in [1..Cardinality(DOMAIN t) -> DOMAIN t] :
        \A i, j \in DOMAIN o : i # j => o[i] # o[j]}

\* mutant of TableBuilder::flush: file_no is not advanced
TableBuilderResetSameFile(b) ==
    [file_no |-> b.file_no, data |-> << >>, index |-> << >>, offset |-> 0]

\* TableBuilder::flush, the reset after both files are written
TableBuilderReset(b) ==
    [file_no |-> b.file_no + 1, data |-> << >>, index |-> << >>, offset |-> 0]

IndexValueOffset(off) == [tag |-> 0, off |-> off]
IndexValueDelete == [tag |-> 1]

\* Table::open, the parse loop over index_buf starting at 0-based position i.
\* A slice or an index past the end of the buffer panics.
RECURSIVE ParseIndex(_, _, _)
ParseIndex(buf, i, index) ==
    IF i >= Len(buf) THEN [status |-> "Ok", index |-> index]
    ELSE IF i + 8 > Len(buf) THEN [status |-> "Panic", index |-> << >>]
    ELSE LET key_size == ReadU64(SubSeq(buf, i + 1, i + 8)) IN
         IF i + 8 + key_size > Len(buf) THEN [status |-> "Panic", index |-> << >>]
         ELSE LET key == SubSeq(buf, i + 9, i + 8 + key_size)
                  j == i + 8 + key_size IN
              IF j >= Len(buf) THEN [status |-> "Panic", index |-> << >>]
              ELSE IF buf[j + 1] = 0
                   THEN IF j + 9 > Len(buf)
                        THEN [status |-> "Panic", index |-> << >>]
                        ELSE ParseIndex(buf, j + 9,
                                 MemTableInsert(index, key,
                                     IndexValueOffset(ReadU64(SubSeq(buf, j + 2, j + 9)))))
                   ELSE IF buf[j + 1] = 1
                        THEN ParseIndex(buf, j + 1,
                                 MemTableInsert(index, key, IndexValueDelete))
                        ELSE [status |-> "DBCorruptionError", index |-> << >>]

\* Table::open: `ix` is the Option holding the bytes of <file_no>.ix
TableOpen(ix, file_no) ==
    IF ~IsSome(ix) THEN [status |-> "IOError", file_no |-> file_no, index |-> << >>]
    ELSE LET r == ParseIndex(Unwrap(ix), 0, << >>) IN
         [status |-> r.status, file_no |-> file_no, index |-> r.index]

\* Table::decode at offset `off` of the data file bytes
Decode(dt, off) ==
    IF off + 8 > Len(dt) THEN [status |-> "IOError", val |-> None]
    ELSE LET size == ReadU64(SubSeq(dt, off + 1, off + 8)) IN
         IF off + 8 + size > Len(dt)
         THEN [status |-> "Hang", val |-> None]
         ELSE [status |-> "Ok",
               val |-> Some(MemValueValue(SubSeq(dt, off + 9, off + 8 + size)))]

\* Table::get: `dt` is the Option holding the bytes of <file_no>.dt
TableGet(table, key, dt) ==
    IF key \notin DOMAIN table.index THEN [status |-> "Ok", val |-> None]
    ELSE IF table.index[key].tag = 1
         THEN [status |-> "Ok", val |-> Some(MemValueDelete)]
         ELSE IF ~IsSome(dt) THEN [status |-> "IOError", val |-> None]
              ELSE Decode(Unwrap(dt), table.index[key].off)

(* ---------------------------------------------------------------------- *)
(* cache.rs: LRUCache<u64, Table>                                          *)
(* A RawLink is an address: NullPtr, the two sentinels, or a boxed entry.  *)
(* The heap `mem` maps the live addresses to LRUEntry records.  Following  *)
(* a link that is no live address is undefined behaviour.                  *)
(* ---------------------------------------------------------------------- *)
\* RawLink::none
NullPtr == 0
\* the address of the boxed head sentinel
HeadPtr == 1
\* the address of the boxed tail sentinel
TailPtr == 2
\* the content of a link field that mem::uninitialized left unset
UninitPtr == 3

\* LRUEntry::new
LRUEntryNew(key, val) ==
    [key |-> key, val |-> val, next |-> NullPtr, prev |-> NullPtr]

\* LRUCache::new: the sentinels' key and val stay uninitialized
LRUCacheNew(cap) ==
    [map |-> << >>,
     cap |-> cap,
     mem |-> (HeadPtr :> [next |-> TailPtr, prev |-> UninitPtr]) @@
             (TailPtr :> [next |-> UninitPtr, prev |-> HeadPtr])]

\* RawLink::resolve_mut is defined on the live addresses only
Resolves(mem, p) == p \in DOMAIN mem

IsEntry(mem, p) == p \in DOMAIN mem /\ p # HeadPtr /\ p # TailPtr

\* Box::new: a fresh address
BoxNew(mem) == CHOOSE a \in 4..(4 + Cardinality(DOMAIN mem)) : a \notin DOMAIN mem

UBMem == [ub |-> TRUE, mem |-> << >>]

\* LRUCache::detach
Detach(mem, node_ptr) ==
    IF ~Resolves(mem, mem[node_ptr].prev) THEN UBMem
    ELSE LET m1 == [mem EXCEPT ![mem[node_ptr].prev].next = mem[node_ptr].next] IN
         IF ~Resolves(m1, m1[node_ptr].next) THEN UBMem
         ELSE [ub |-> FALSE,
               mem |-> [m1 EXCEPT ![m1[node_ptr].next].prev = m1[node_ptr].prev]]

\* LRUCache::attach: node.next, head.next.prev and head.next are stored;
\* node.prev is not
Attach(mem, node_ptr) ==
    LET m1 == [mem EXCEPT ![node_ptr].next = mem[HeadPtr].next] IN
    IF ~Resolves(m1, m1[HeadPtr].next) THEN UBMem
    ELSE LET m2 == [m1 EXCEPT ![m1[HeadPtr].next].prev = node_ptr] IN
         [ub |-> FALSE, mem |-> [m2 EXCEPT ![HeadPtr].next = node_ptr]]

\* detach followed by attach, as get and put do for an entry found in the map
MoveToFront(mem, node_ptr) ==
    LET d == Detach(mem, node_ptr) IN
    IF d.ub THEN UBMem ELSE Attach(d.mem, node_ptr)

UBCache(c) == [ub |-> TRUE, freed |-> FALSE, cache |-> c, ret |-> None]

\* LRUCache::get: ret is Some(val) on a hit
LRUCacheGet(c, key) ==
    IF key \in DOMAIN c.map
    THEN LET entry_ptr == c.map[key]
             m == MoveToFront(c.mem, entry_ptr) IN
         IF m.ub THEN UBCache(c)
         ELSE [ub |-> FALSE, freed |-> FALSE,
               cache |-> [c EXCEPT !.mem = m.mem],
               ret |-> Some(c.mem[entry_ptr].val)]
    ELSE [ub |-> FALSE, freed |-> FALSE, cache |-> c, ret |-> None]

MapRemove(map, key) == [k \in (DOMAIN map) \ {key} |-> map[k]]

MapInsert(map, key, ptr) ==
    [k \in (DOMAIN map) \cup {key} |-> IF k = key THEN ptr ELSE map[k]]

\* LRUCache::put.  On the eviction path the Box returned by map.remove is
\* dropped at the end of its statement, so the entry is written, detached and
\* re-boxed after its memory was freed: `freed` reports it, and `cache` is the
\* state the build reaches when the freed memory is still intact.
LRUCachePut(c, key, val) ==
    IF key \in DOMAIN c.map
    THEN LET entry_ptr == c.map[key]
             m0 == [c.mem EXCEPT ![entry_ptr].val = val]
             m == MoveToFront(m0, entry_ptr) IN
         IF m.ub THEN UBCache(c)
         ELSE [ub |-> FALSE, freed |-> FALSE,
               cache |-> [c EXCEPT !.mem = m.mem],
               ret |-> Some(c.mem[entry_ptr].val)]
    ELSE IF Cardinality(DOMAIN c.map) = c.cap
         THEN LET last_entry_ptr == c.mem[TailPtr].prev IN
              IF ~IsEntry(c.mem, last_entry_ptr) THEN UBCache(c)
              ELSE IF c.mem[last_entry_ptr].key \notin DOMAIN c.map THEN UBCache(c)
              ELSE LET map1 == MapRemove(c.map, c.mem[last_entry_ptr].key)
                       m0 == [c.mem EXCEPT ![last_entry_ptr].key = key,
                                           ![last_entry_ptr].val = val]
                       d == Detach(m0, last_entry_ptr) IN
                   IF d.ub THEN UBCache(c)
                   ELSE LET a == Attach(d.mem, last_entry_ptr) IN
                        IF a.ub THEN UBCache(c)
                        ELSE [ub |-> FALSE, freed |-> TRUE,
                              cache |-> [c EXCEPT !.mem = a.mem,
                                  !.map = MapInsert(map1, key, last_entry_ptr)],
                              ret |-> None]
         ELSE LET entry_ptr == BoxNew(c.mem)
                  m0 == (entry_ptr :> LRUEntryNew(key, val)) @@ c.mem
                  a == Attach(m0, entry_ptr) IN
              IF a.ub THEN UBCache(c)
              ELSE [ub |-> FALSE, freed |-> FALSE,
                    cache |-> [c EXCEPT !.mem = a.mem,
                                        !.map = MapInsert(c.map, key, entry_ptr)],
                    ret |-> None]

(* ---------------------------------------------------------------------- *)
(* db.rs: the engine, its application threads and the flush thread         *)
(* ---------------------------------------------------------------------- *)
VARIABLES
    path,          \* the db_name path: "absent", "file" or "dir"
    dt,            \* the <id>.dt files of the directory: id -> bytes
    ix,            \* the <id>.ix files of the directory: id -> bytes
    metadata,      \* the METADATA file: None or Some(bytes)
    db,            \* "none", or "open" while a DB value exists
    mem_table,     \* DB.mem_table
    flush_table,   \* DB.flush_table: None or Some(table)
    cache,         \* DB.cache
    files,         \* DB.files
    handle,        \* DB.flush_thread_handle holds Some(join handle)
    to_flush,      \* the bool of DB.cv_pair
    cv_lock,       \* the mutex of DB.cv_pair: "free" or "held" (by the flush thread)
    poisoned,      \* the mutex of DB.cv_pair is poisoned
    chan,          \* messages sent on flush_thread_sender and not yet received
    builder,       \* the flush thread's _table_builder
    table,         \* the flush thread's local `table` drained from flush_table
    wresult,       \* how the flush thread ended: "running", "Ok", "Err", "Panic"
    pc,            \* the position of every thread in its code
    local,         \* the locals of every application thread's current call
    crashed,       \* the process was killed by undefined behaviour
    hist           \* history: what the application and the disk have been through

vars == <<path, dt, ix, metadata, db, mem_table, flush_table, cache, files, handle,
          to_flush, cv_lock, poisoned, chan, builder, table, wresult, pc, local,
          crashed, hist>>

dirVars == <<path, dt, ix, metadata>>
engineVars == <<mem_table, flush_table, cache, files, handle>>
syncVars == <<to_flush, cv_lock, poisoned, chan>>
workerVars == <<builder, table, wresult>>

\* the thread spawned by DB::start_flush_thread
FlushThread == 0

Apps == (DOMAIN pc) \ {FlushThread}

NoCall == [op |-> "none", key |-> << >>, res |-> [status |-> "none", val |-> None],
           num_files |-> 0, i |-> 0]

NoHist ==
    [model |-> [k \in Keys |-> None],   \* per key: the value last put, None if deleted or never written
     written |-> {},                    \* keys put or deleted on the current engine
     dirty |-> FALSE,                   \* a put/delete was issued that no successful close has followed
     lossy |-> FALSE,                   \* an engine was opened while dirty
     writes |-> 0,                      \* put/delete calls issued on the directory
     gets |-> 0,                        \* get calls issued on the current engine
     opens |-> 0,                       \* DB::open calls that succeeded
     faults |-> 0,                      \* I/O failures injected
     flushes |-> 0,                     \* TableBuilder::flush calls that returned Ok
     closed |-> FALSE,                  \* a close() of the current engine has returned Ok
     closeErr |-> "none",               \* the error of the last close() of the current engine
     flushFailed |-> FALSE,             \* a flush step of the current flush thread failed
     rewritten |-> FALSE,               \* a file that already existed was written again
     dtDone |-> {},                     \* ids whose .dt file was written in full
     ixDone |-> {},                     \* ids whose .ix file was written in full
     filesAtTake |-> 0]                 \* `files` when the flush thread last drained flush_table

InitThreads(n) ==
    /\ path \in {"absent", "file", "dir"}
    /\ dt = << >>
    /\ ix = << >>
    /\ metadata = None
    /\ db = "none"
    /\ mem_table = MemTableNew
    /\ flush_table = None
    /\ cache = LRUCacheNew(cache_size)
    /\ files = 0
    /\ handle = FALSE
    /\ to_flush = FALSE
    /\ cv_lock = "free"
    /\ poisoned = FALSE
    /\ chan = 0
    /\ builder = TableBuilderNew(0)
    /\ table = MemTableNew
    /\ wresult = "Ok"
    /\ pc = [t \in 0..n |-> IF t = FlushThread THEN "done" ELSE "idle"]
    /\ local = [t \in 1..n |-> NoCall]
    /\ crashed = FALSE
    /\ hist = NoHist

Init == InitThreads(1)

(* ---------------------------------------------------------------------- *)
(* Condvar                                                                 *)
(* ---------------------------------------------------------------------- *)
WaitPcs == {"w_wait", "sf_wait", "c_wait"}

\* where a thread resumes once notified: it re-acquires the mutex and
\* re-evaluates its loop condition
Woken(p) ==
    IF p = "w_wait" THEN "w_lock" ELSE IF p = "sf_wait" THEN "sf_lock" ELSE "c_lock"

\* Condvar::notify_one after the threads moved to `pcs`: one waiter, if any, wakes
NotifyOne(pcs) ==
    LET waiters == {t \in DOMAIN pcs : pcs[t] \in WaitPcs} IN
    IF waiters = {} THEN {pcs}
    ELSE {[pcs EXCEPT ![w] = Woken(pcs[w])] : w \in waiters}

\* Condvar::wait may return without a notification; the caller's loop then
\* re-evaluates its condition
SpuriousWakeup(t) ==
    /\ ~crashed
    /\ pc[t] \in WaitPcs
    /\ pc' = [pc EXCEPT ![t] = Woken(pc[t])]
    /\ UNCHANGED <<dirVars, db, engineVars, syncVars, workerVars, local, crashed, hist>>

(* ---------------------------------------------------------------------- *)
(* DB::open                                                                *)
(* ---------------------------------------------------------------------- *)
\* mutant of DB::num_log_files: a directory without METADATA counts as empty
NumLogFilesNoMetadataOk(create_if_missing) ==
    IF path = "dir"
    THEN IF IsSome(metadata)
         THEN IF Len(Unwrap(metadata)) < 8
              THEN [status |-> "IOError", n |-> 0]
              ELSE [status |-> "Ok", n |-> ReadU64(SubSeq(Unwrap(metadata), 1, 8))]
         ELSE [status |-> "Ok", n |-> 0]
    ELSE IF path = "file" THEN [status |-> "DBNameInvalidError", n |-> 0]
    ELSE IF create_if_missing THEN [status |-> "Ok", n |-> 0]
    ELSE [status |-> "DBNameInvalidError", n |-> 0]

\* DB::num_log_files: the count, or the error
NumLogFiles(create_if_missing) ==
    IF path = "dir"
    THEN IF IsSome(metadata)
         THEN IF Len(Unwrap(metadata)) < 8
              THEN [status |-> "IOError", n |-> 0]
              ELSE [status |-> "Ok", n |-> ReadU64(SubSeq(Unwrap(metadata), 1, 8))]
         ELSE [status |-> "DBNameInvalidError", n |-> 0]
    ELSE IF path = "file" THEN [status |-> "DBNameInvalidError", n |-> 0]
    ELSE IF create_if_missing THEN [status |-> "Ok", n |-> 0]
    ELSE [status |-> "DBNameInvalidError", n |-> 0]

\* DB::open; the spawned flush thread loads `files` and builds its TableBuilder
Open(t, create_if_missing) ==
    /\ ~crashed
    /\ db = "none"
    /\ pc[t] = "idle"
    /\ hist.opens < MaxOpens
    /\ LET r == NumLogFiles(create_if_missing) IN
       IF r.status = "Ok"
       THEN /\ path' = "dir"
            /\ db' = "open"
            /\ mem_table' = MemTableNew
            /\ flush_table' = None
            /\ cache' = LRUCacheNew(cache_size)
            /\ files' = r.n
            /\ handle' = TRUE
            /\ to_flush' = FALSE
            /\ cv_lock' = "free"
            /\ poisoned' = FALSE
            /\ chan' = 0
            /\ builder' = TableBuilderNew(r.n)
            /\ table' = MemTableNew
            /\ wresult' = "running"
            /\ pc' = [pc EXCEPT ![FlushThread] = "w_lock"]
            /\ local' = [local EXCEPT ![t] =
                   [NoCall EXCEPT !.op = "open", !.res.status = "Ok"]]
            /\ hist' = [hist EXCEPT !.opens = @ + 1, !.gets = 0, !.written = {},
                                    !.lossy = @ \/ hist.dirty, !.closed = FALSE,
                                    !.closeErr = "none", !.flushFailed = FALSE]
            /\ UNCHANGED <<dt, ix, metadata, crashed>>
       ELSE /\ local' = [local EXCEPT ![t] =
                   [NoCall EXCEPT !.op = "open", !.res.status = r.status]]
            /\ UNCHANGED <<dirVars, db, engineVars, syncVars, workerVars, pc,
                           crashed, hist>>

(* ---------------------------------------------------------------------- *)
(* DB::start_flush_thread: the loop of the flush thread                    *)
(* ---------------------------------------------------------------------- *)
\* the outcomes of File::create followed by write_all
Faults == {"none", "create", "write"}

\* what a write_all that fails has put into the file
Partial(bytes) == SubSeq(bytes, 1, Len(bytes) \div 2)

MayFail(fault) == fault = "none" \/ hist.faults < MaxFaults

\* the thread's closure returns or unwinds: its guard on the mutex is dropped
WorkerEnds(result) ==
    /\ pc' = [pc EXCEPT ![FlushThread] = "done"]
    /\ wresult' = result
    /\ cv_lock' = "free"
    /\ poisoned' = (poisoned \/ result = "Panic")

\* lock.lock() and the loop `while !*to_flush { wait }`
WLock ==
    /\ ~crashed
    /\ pc[FlushThread] = "w_lock"
    /\ cv_lock = "free"
    /\ IF to_flush
       THEN /\ cv_lock' = "held"
            /\ pc' = [pc EXCEPT ![FlushThread] = "w_recv"]
       ELSE /\ cv_lock' = "free"
            /\ pc' = [pc EXCEPT ![FlushThread] = "w_wait"]
    /\ UNCHANGED <<dirVars, db, engineVars, to_flush, poisoned, chan, workerVars,
                   local, crashed, hist>>

\* receiver.try_recv()
WRecv ==
    /\ ~crashed
    /\ pc[FlushThread] = "w_recv"
    /\ IF chan > 0
       THEN /\ chan' = chan - 1
            /\ WorkerEnds("Ok")
       ELSE /\ pc' = [pc EXCEPT ![FlushThread] = "w_take"]
            /\ UNCHANGED <<chan, wresult, cv_lock, poisoned>>
    /\ UNCHANGED <<dirVars, db, engineVars, to_flush, builder, table, local,
                   crashed, hist>>

\* (flush_table.write()?).take()
WTake ==
    /\ ~crashed
    /\ pc[FlushThread] = "w_take"
    /\ IF IsPoisoned(flush_table)
       THEN /\ WorkerEnds("Err")
            /\ UNCHANGED <<table, flush_table, hist>>
       ELSE /\ IF IsSome(flush_table)
               THEN /\ table' = Unwrap(flush_table)
                    /\ flush_table' = None
                    /\ pc' = [pc EXCEPT ![FlushThread] = "w_add"]
               ELSE /\ pc' = [pc EXCEPT ![FlushThread] = "w_clear"]
                    /\ UNCHANGED <<table, flush_table>>
            /\ hist' = [hist EXCEPT !.filesAtTake = files]
            /\ UNCHANGED <<wresult, cv_lock, poisoned>>
    /\ UNCHANGED <<dirVars, db, mem_table, cache, files, handle, to_flush, chan,
                   builder, local, crashed>>

\* for (key, value) in inner_table.table.into_iter() { _table_builder.add(..)? }
WAdd ==
    /\ ~crashed
    /\ pc[FlushThread] = "w_add"
    /\ \E order \in Orders(table) : builder' = AddAll(builder, table, order)
    /\ table' = MemTableNew
    /\ pc' = [pc EXCEPT ![FlushThread] = "w_flush_dt"]
    /\ UNCHANGED <<dirVars, db, engineVars, syncVars, wresult, local, crashed, hist>>

\* TableBuilder::flush, File::create(<file_no>.dt)?.write_all(&self.data)?
WFlushDt ==
    /\ ~crashed
    /\ pc[FlushThread] = "w_flush_dt"
    /\ \E fault \in Faults :
        /\ MayFail(fault)
        /\ dt' = IF fault = "none" THEN (builder.file_no :> builder.data) @@ dt
                 ELSE IF fault = "write"
                      THEN (builder.file_no :> Partial(builder.data)) @@ dt
                      ELSE dt
        /\ hist' = [hist EXCEPT
               !.faults = IF fault = "none" THEN @ ELSE @ + 1,
               !.flushFailed = @ \/ fault # "none",
               !.rewritten = @ \/ (fault # "create" /\ builder.file_no \in DOMAIN dt),
               !.dtDone = IF fault = "none" THEN @ \cup {builder.file_no}
                          ELSE IF fault = "write" THEN @ \ {builder.file_no} ELSE @]
        /\ IF fault = "none"
           THEN /\ pc' = [pc EXCEPT ![FlushThread] = "w_flush_ix"]
                /\ UNCHANGED <<wresult, cv_lock, poisoned>>
           ELSE WorkerEnds("Err")
    /\ UNCHANGED <<path, ix, metadata, db, engineVars, to_flush, chan, builder, table,
                   local, crashed>>

\* mutant of the flush of <file_no>.ix: the error of the write is dropped and
\* the thread carries on to METADATA
WFlushIxIgnoreError ==
    /\ ~crashed
    /\ pc[FlushThread] = "w_flush_ix"
    /\ \E fault \in Faults :
        /\ MayFail(fault)
        /\ ix' = IF fault = "none" THEN (builder.file_no :> builder.index) @@ ix
                 ELSE IF fault = "write"
                      THEN (builder.file_no :> Partial(builder.index)) @@ ix
                      ELSE ix
        /\ hist' = [hist EXCEPT
               !.faults = IF fault = "none" THEN @ ELSE @ + 1,
               !.flushFailed = @ \/ fault # "none",
               !.flushes = IF fault = "none" THEN @ + 1 ELSE @,
               !.rewritten = @ \/ (fault # "create" /\ builder.file_no \in DOMAIN ix),
               !.ixDone = IF fault = "none" THEN @ \cup {builder.file_no}
                          ELSE IF fault = "write" THEN @ \ {builder.file_no} ELSE @]
    /\ builder' = TableBuilderReset(builder)
    /\ pc' = [pc EXCEPT ![FlushThread] = "w_meta"]
    /\ UNCHANGED <<path, dt, metadata, db, engineVars, to_flush, chan, table,
                   local, crashed, wresult, cv_lock, poisoned>>

\* TableBuilder::flush, File::create(<file_no>.ix)?.write_all(&self.index)?
\* and the reset of the builder
WFlushIx ==
    /\ ~crashed
    /\ pc[FlushThread] = "w_flush_ix"
    /\ \E fault \in Faults :
        /\ MayFail(fault)
        /\ ix' = IF fault = "none" THEN (builder.file_no :> builder.index) @@ ix
                 ELSE IF fault = "write"
                      THEN (builder.file_no :> Partial(builder.index)) @@ ix
                      ELSE ix
        /\ hist' = [hist EXCEPT
               !.faults = IF fault = "none" THEN @ ELSE @ + 1,
               !.flushFailed = @ \/ fault # "none",
               !.flushes = IF fault = "none" THEN @ + 1 ELSE @,
               !.rewritten = @ \/ (fault # "create" /\ builder.file_no \in DOMAIN ix),
               !.ixDone = IF fault = "none" THEN @ \cup {builder.file_no}
                          ELSE IF fault = "write" THEN @ \ {builder.file_no} ELSE @]
        /\ IF fault = "none"
           THEN /\ builder' = TableBuilderReset(builder)
                /\ pc' = [pc EXCEPT ![FlushThread] = "w_meta"]
                /\ UNCHANGED <<wresult, cv_lock, poisoned>>
           ELSE /\ WorkerEnds("Err")
                /\ UNCHANGED builder
    /\ UNCHANGED <<path, dt, metadata, db, engineVars, to_flush, chan, table,
                   local, crashed>>

\* File::create(METADATA).unwrap().write_all(&num_files).unwrap()
WMeta ==
    /\ ~crashed
    /\ pc[FlushThread] = "w_meta"
    /\ \E fault \in Faults :
        /\ MayFail(fault)
        /\ metadata' = IF fault = "none" THEN Some(WriteU64(builder.file_no))
                       ELSE IF fault = "write"
                            THEN Some(Partial(WriteU64(builder.file_no)))
                            ELSE metadata
        /\ hist' = [hist EXCEPT
               !.faults = IF fault = "none" THEN @ ELSE @ + 1,
               !.flushFailed = @ \/ fault # "none"]
        /\ IF fault = "none"
           THEN /\ pc' = [pc EXCEPT ![FlushThread] = "w_incr"]
                /\ UNCHANGED <<wresult, cv_lock, poisoned>>
           ELSE WorkerEnds("Panic")
    /\ UNCHANGED <<path, dt, ix, db, engineVars, to_flush, chan, builder, table,
                   local, crashed>>

\* db_files.fetch_add(1, Ordering::SeqCst)
WIncr ==
    /\ ~crashed
    /\ pc[FlushThread] = "w_incr"
    /\ files' = files + 1
    /\ pc' = [pc EXCEPT ![FlushThread] = "w_clear"]
    /\ UNCHANGED <<dirVars, db, mem_table, flush_table, cache, handle, syncVars,
                   workerVars, local, crashed, hist>>

\* *to_flush = false; cvar.notify_one(); the guard is dropped at the end of
\* the loop body
WClear ==
    /\ ~crashed
    /\ pc[FlushThread] = "w_clear"
    /\ to_flush' = FALSE
    /\ cv_lock' = "free"
    /\ pc' \in NotifyOne([pc EXCEPT ![FlushThread] = "w_lock"])
    /\ UNCHANGED <<dirVars, db, engineVars, poisoned, chan, workerVars, local,
                   crashed, hist>>

(* ---------------------------------------------------------------------- *)
(* The calls of an application thread                                      *)
(* ---------------------------------------------------------------------- *)
Res(status, val) == [status |-> status, val |-> val]

\* the put/delete calls the application may issue: MaxWrites from a single
\* thread, MaxConcurrentWrites when several threads share the engine
WriteBudget == IF Cardinality(Apps) = 1 THEN MaxWrites ELSE MaxConcurrentWrites

CanCall(t) ==
    /\ ~crashed
    /\ db = "open"
    /\ pc[t] = "idle"

\* DB::put: mem_table.put and the size test
Put(t, key, value) ==
    /\ CanCall(t)
    /\ hist.writes < WriteBudget
    /\ mem_table' = MemTablePut(mem_table, key, value)
    /\ hist' = [hist EXCEPT !.model[key] = Some(value), !.written = @ \cup {key},
                            !.dirty = TRUE, !.writes = @ + 1]
    /\ IF MemTableSize(mem_table') >= write_buffer_size
       THEN /\ pc' = [pc EXCEPT ![t] = "sf_start"]
            /\ local' = [local EXCEPT ![t] = [NoCall EXCEPT !.op = "put", !.key = key]]
       ELSE /\ pc' = pc
            /\ local' = [local EXCEPT ![t] =
                   [NoCall EXCEPT !.op = "put", !.key = key, !.res = Res("Ok", None)]]
    /\ UNCHANGED <<dirVars, db, flush_table, cache, files, handle, syncVars,
                   workerVars, crashed>>

\* DB::delete: mem_table.delete and the size test
Delete(t, key) ==
    /\ CanCall(t)
    /\ hist.writes < WriteBudget
    /\ mem_table' = MemTableDelete(mem_table, key)
    /\ hist' = [hist EXCEPT !.model[key] = None, !.written = @ \cup {key},
                            !.dirty = TRUE, !.writes = @ + 1]
    /\ IF MemTableSize(mem_table') >= write_buffer_size
       THEN /\ pc' = [pc EXCEPT ![t] = "sf_start"]
            /\ local' = [local EXCEPT ![t] = [NoCall EXCEPT !.op = "delete", !.key = key]]
       ELSE /\ pc' = pc
            /\ local' = [local EXCEPT ![t] =
                   [NoCall EXCEPT !.op = "delete", !.key = key, !.res = Res("Ok", None)]]
    /\ UNCHANGED <<dirVars, db, flush_table, cache, files, handle, syncVars,
                   workerVars, crashed>>

\* where start_flushing returns to when it returns Ok
AfterFlushing(op) == IF op \in {"close", "drop"} THEN "c_lock" ELSE "idle"

\* a call of thread t ends with `res`; Drop destroys the engine
EndCall(t, res) ==
    /\ local' = [local EXCEPT ![t] = [@ EXCEPT !.res = res, !.num_files = 0, !.i = 0]]
    /\ db' = IF local[t].op = "drop" THEN "none" ELSE db
    /\ hist' = [hist EXCEPT
           !.closed = @ \/ (local[t].op \in {"close", "drop"} /\ res.status = "Ok"),
           !.closeErr = IF local[t].op \in {"close", "drop"} /\ res.status # "Ok"
                        THEN res.status ELSE @,
           !.dirty = @ /\ ~(local[t].op \in {"close", "drop"} /\ pc[t] = "c_join"
                            /\ res.status = "Ok" /\ wresult = "Ok")]

\* DB::start_flushing: `if self.mem_table.is_empty() { return Ok(()) }`
SfStart(t) ==
    /\ ~crashed
    /\ pc[t] = "sf_start"
    /\ IF MemTableIsEmpty(mem_table)
       THEN IF AfterFlushing(local[t].op) = "idle"
            THEN /\ pc' = [pc EXCEPT ![t] = "idle"]
                 /\ EndCall(t, Res("Ok", None))
            ELSE /\ pc' = [pc EXCEPT ![t] = "c_lock"]
                 /\ UNCHANGED <<local, db, hist>>
       ELSE /\ pc' = [pc EXCEPT ![t] = "sf_lock"]
            /\ UNCHANGED <<local, db, hist>>
    /\ UNCHANGED <<dirVars, engineVars, syncVars, workerVars, crashed>>

\* mutant of the wait of start_flushing: the loop on to_flush is missing
SfLockNoWait(t) ==
    /\ ~crashed
    /\ pc[t] = "sf_lock"
    /\ cv_lock = "free"
    /\ IF poisoned
       THEN /\ pc' = [pc EXCEPT ![t] = "idle"]
            /\ EndCall(t, Res("SyncPoisonError", None))
       ELSE /\ pc' = [pc EXCEPT ![t] = "sf_store"]
            /\ UNCHANGED <<local, db, hist>>
    /\ UNCHANGED <<dirVars, engineVars, syncVars, workerVars, crashed>>

\* DB::start_flushing: lock.lock()? and the loop `while *to_flush { wait }`
SfLock(t) ==
    /\ ~crashed
    /\ pc[t] = "sf_lock"
    /\ cv_lock = "free"
    /\ IF poisoned
       THEN /\ pc' = [pc EXCEPT ![t] = "idle"]
            /\ EndCall(t, Res("SyncPoisonError", None))
       ELSE /\ pc' = [pc EXCEPT ![t] = IF to_flush THEN "sf_wait" ELSE "sf_store"]
            /\ UNCHANGED <<local, db, hist>>
    /\ UNCHANGED <<dirVars, engineVars, syncVars, workerVars, crashed>>

\* DB::start_flushing: the assertion and `*w_guard = Some(self.mem_table.clear())`
SfStore(t) ==
    /\ ~crashed
    /\ pc[t] = "sf_store"
    /\ IF IsPoisoned(flush_table)
       THEN /\ pc' = [pc EXCEPT ![t] = "idle"]
            /\ EndCall(t, Res("SyncPoisonError", None))
            /\ UNCHANGED <<flush_table, mem_table>>
       ELSE IF IsSome(flush_table)
       THEN /\ pc' = [pc EXCEPT ![t] = "panicked"]
            /\ EndCall(t, Res("Panic", None))
            /\ flush_table' = PoisonedLock(flush_table)
            /\ UNCHANGED mem_table
       ELSE /\ flush_table' = Some(mem_table)
            /\ mem_table' = MemTableNew
            /\ pc' = [pc EXCEPT ![t] = "sf_signal"]
            /\ UNCHANGED <<local, db, hist>>
    /\ UNCHANGED <<dirVars, cache, files, handle, syncVars, workerVars, crashed>>

\* DB::start_flushing: lock.lock().unwrap(); *to_flush = true; cvar.notify_one()
SfSignal(t) ==
    /\ ~crashed
    /\ pc[t] = "sf_signal"
    /\ cv_lock = "free"
    /\ IF poisoned
       THEN /\ pc' = [pc EXCEPT ![t] = "panicked"]
            /\ EndCall(t, Res("Panic", None))
            /\ UNCHANGED to_flush
       ELSE /\ to_flush' = TRUE
            /\ IF AfterFlushing(local[t].op) = "idle"
               THEN /\ pc' \in NotifyOne([pc EXCEPT ![t] = "idle"])
                    /\ EndCall(t, Res("Ok", None))
               ELSE /\ pc' \in NotifyOne([pc EXCEPT ![t] = "c_lock"])
                    /\ UNCHANGED <<local, db, hist>>
    /\ UNCHANGED <<dirVars, engineVars, cv_lock, poisoned, chan, workerVars, crashed>>

(* ---------------------------------------------------------------------- *)
(* DB::close and Drop for DB                                               *)
(* ---------------------------------------------------------------------- *)
\* mutant of DB::close: the test of flush_thread_handle is missing
CloseCallNoCheck(t, op) ==
    /\ CanCall(t)
    /\ pc' = [pc EXCEPT ![t] = "sf_start"]
    /\ local' = [local EXCEPT ![t] = [NoCall EXCEPT !.op = op]]
    /\ UNCHANGED <<db, hist>>
    /\ UNCHANGED <<dirVars, engineVars, syncVars, workerVars, crashed>>

\* DB::close, entered as `op` ("close", or "drop" when Drop::drop runs it):
\* `if self.flush_thread_handle.read()?.is_none() { return Ok(()) }`
CloseCall(t, op) ==
    /\ CanCall(t)
    /\ IF ~handle
       THEN /\ pc' = pc
            /\ local' = [local EXCEPT ![t] =
                   [NoCall EXCEPT !.op = op, !.res = Res("Ok", None)]]
            /\ db' = IF op = "drop" THEN "none" ELSE db
            /\ hist' = [hist EXCEPT !.closed = TRUE]
       ELSE /\ pc' = [pc EXCEPT ![t] = "sf_start"]
            /\ local' = [local EXCEPT ![t] = [NoCall EXCEPT !.op = op]]
            /\ UNCHANGED <<db, hist>>
    /\ UNCHANGED <<dirVars, engineVars, syncVars, workerVars, crashed>>

Close(t) == CloseCall(t, "close")

\* Drop for DB: self.close().expect(..), then the DB value is gone
Drop(t) == CloseCall(t, "drop")

\* DB::close: lock.lock()? and the loop `while *to_flush { wait }`
CLock(t) ==
    /\ ~crashed
    /\ pc[t] = "c_lock"
    /\ cv_lock = "free"
    /\ IF poisoned
       THEN /\ pc' = [pc EXCEPT ![t] = "idle"]
            /\ EndCall(t, Res("SyncPoisonError", None))
       ELSE /\ pc' = [pc EXCEPT ![t] = IF to_flush THEN "c_wait" ELSE "c_send"]
            /\ UNCHANGED <<local, db, hist>>
    /\ UNCHANGED <<dirVars, engineVars, syncVars, workerVars, crashed>>

\* DB::close: self.flush_thread_sender.send(())?
CSend(t) ==
    /\ ~crashed
    /\ pc[t] = "c_send"
    /\ IF pc[FlushThread] = "done"
       THEN /\ pc' = [pc EXCEPT ![t] = "idle"]
            /\ EndCall(t, Res("SendError", None))
            /\ UNCHANGED chan
       ELSE /\ chan' = chan + 1
            /\ pc' = [pc EXCEPT ![t] = "c_signal"]
            /\ UNCHANGED <<local, db, hist>>
    /\ UNCHANGED <<dirVars, engineVars, to_flush, cv_lock, poisoned, workerVars, crashed>>

\* DB::close: lock.lock().unwrap(); *to_flush = true; cvar.notify_one()
CSignal(t) ==
    /\ ~crashed
    /\ pc[t] = "c_signal"
    /\ cv_lock = "free"
    /\ IF poisoned
       THEN /\ pc' = [pc EXCEPT ![t] = "panicked"]
            /\ EndCall(t, Res("Panic", None))
            /\ UNCHANGED to_flush
       ELSE /\ to_flush' = TRUE
            /\ pc' \in NotifyOne([pc EXCEPT ![t] = "c_take"])
            /\ UNCHANGED <<local, db, hist>>
    /\ UNCHANGED <<dirVars, engineVars, cv_lock, poisoned, chan, workerVars, crashed>>

\* DB::close: (self.flush_thread_handle.write()?).take() and join_handle.unwrap()
CTake(t) ==
    /\ ~crashed
    /\ pc[t] = "c_take"
    /\ IF handle
       THEN /\ handle' = FALSE
            /\ pc' = [pc EXCEPT ![t] = "c_join"]
            /\ UNCHANGED <<local, db, hist>>
       ELSE /\ pc' = [pc EXCEPT ![t] = "panicked"]
            /\ EndCall(t, Res("Panic", None))
            /\ UNCHANGED handle
    /\ UNCHANGED <<dirVars, mem_table, flush_table, cache, files, syncVars,
                   workerVars, crashed>>

\* DB::close: join() returns once the flush thread has ended; only a panic of
\* the thread makes join().is_err()
CJoin(t) ==
    /\ ~crashed
    /\ pc[t] = "c_join"
    /\ pc[FlushThread] = "done"
    /\ pc' = [pc EXCEPT ![t] = "idle"]
    /\ EndCall(t, IF wresult = "Panic" THEN Res("BackgroundFlushError", None)
                  ELSE Res("Ok", None))
    /\ UNCHANGED <<dirVars, engineVars, syncVars, workerVars, crashed>>

(* ---------------------------------------------------------------------- *)
(* DB::get                                                                 *)
(* ---------------------------------------------------------------------- *)
\* get_mem_value!: what get returns for a MemValue it found
GetMemValue(mv) == IF mv.tag = 0 THEN Res("Ok", Some(mv.val)) ELSE Res("Ok", None)

\* get_mem_value!(self.mem_table.get(&key_bytes))
Get(t, key) ==
    /\ CanCall(t)
    /\ hist.gets < MaxGets
    /\ hist' = [hist EXCEPT !.gets = @ + 1]
    /\ LET mv == MemTableGet(mem_table, key) IN
       IF IsSome(mv)
       THEN /\ pc' = pc
            /\ local' = [local EXCEPT ![t] =
                   [NoCall EXCEPT !.op = "get", !.key = key,
                                  !.res = GetMemValue(Unwrap(mv))]]
       ELSE /\ pc' = [pc EXCEPT ![t] = "g_slot"]
            /\ local' = [local EXCEPT ![t] = [NoCall EXCEPT !.op = "get", !.key = key]]
    /\ UNCHANGED <<dirVars, db, engineVars, syncVars, workerVars, crashed>>

\* mutant of the flush_table block of DB::get: it takes the mutex of cv_pair first
GSlotTakesCvLock(t) ==
    /\ ~crashed
    /\ pc[t] = "g_slot"
    /\ cv_lock = "free"
    /\ LET mv == IF IsSome(flush_table)
                 THEN MemTableGet(Unwrap(flush_table), local[t].key) ELSE None IN
       IF IsPoisoned(flush_table)
       THEN /\ pc' = [pc EXCEPT ![t] = "idle"]
            /\ EndCall(t, Res("SyncPoisonError", None))
       ELSE IF IsSome(mv)
       THEN /\ pc' = [pc EXCEPT ![t] = "idle"]
            /\ EndCall(t, GetMemValue(Unwrap(mv)))
       ELSE /\ pc' = [pc EXCEPT ![t] = "g_files"]
            /\ UNCHANGED <<local, db, hist>>
    /\ UNCHANGED <<dirVars, engineVars, syncVars, workerVars, crashed>>

\* the block reading flush_table under its read guard
GSlot(t) ==
    /\ ~crashed
    /\ pc[t] = "g_slot"
    /\ LET mv == IF IsSome(flush_table)
                 THEN MemTableGet(Unwrap(flush_table), local[t].key) ELSE None IN
       IF IsPoisoned(flush_table)
       THEN /\ pc' = [pc EXCEPT ![t] = "idle"]
            /\ EndCall(t, Res("SyncPoisonError", None))
       ELSE IF IsSome(mv)
       THEN /\ pc' = [pc EXCEPT ![t] = "idle"]
            /\ EndCall(t, GetMemValue(Unwrap(mv)))
       ELSE /\ pc' = [pc EXCEPT ![t] = "g_files"]
            /\ UNCHANGED <<local, db, hist>>
    /\ UNCHANGED <<dirVars, engineVars, syncVars, workerVars, crashed>>

\* let num_files = self.files.load(Ordering::SeqCst)
GFiles(t) ==
    /\ ~crashed
    /\ pc[t] = "g_files"
    /\ local' = [local EXCEPT ![t] = [@ EXCEPT !.num_files = files, !.i = 0]]
    /\ pc' = [pc EXCEPT ![t] = "g_loop"]
    /\ UNCHANGED <<dirVars, db, engineVars, syncVars, workerVars, crashed, hist>>

ReadFile(fs, id) == IF id \in DOMAIN fs THEN Some(fs[id]) ELSE None

\* one iteration of the loop over the log files, for file `id`: the cache
\* lookup, Table::open on a miss, Table::get and the insertion into the cache
GetFromFile(c, id, key) ==
    LET g == LRUCacheGet(c, id) IN
    IF g.ub THEN [ub |-> TRUE, freed |-> FALSE, cache |-> c, status |-> "Ok", val |-> None]
    ELSE IF IsSome(g.ret)
    THEN LET r == TableGet(Unwrap(g.ret), key, ReadFile(dt, id)) IN
         [ub |-> FALSE, freed |-> FALSE, cache |-> g.cache,
          status |-> r.status, val |-> r.val]
    ELSE LET o == TableOpen(ReadFile(ix, id), id) IN
         IF o.status # "Ok"
         THEN [ub |-> FALSE, freed |-> FALSE, cache |-> c, status |-> o.status,
               val |-> None]
         ELSE LET tbl == [file_no |-> o.file_no, index |-> o.index]
                  r == TableGet(tbl, key, ReadFile(dt, id)) IN
              IF r.status # "Ok"
              THEN [ub |-> FALSE, freed |-> FALSE, cache |-> c, status |-> r.status,
                    val |-> None]
              ELSE LET p == LRUCachePut(c, id, tbl) IN
                   [ub |-> p.ub, freed |-> p.freed, cache |-> p.cache,
                    status |-> "Ok", val |-> r.val]

\* the loop `for i in 0..num_files` of DB::get, one iteration per step; `s` is
\* what the iteration on the next log file yields.
\* Undefined behaviour in the cache kills the process; after the use of a
\* freed entry the build may also carry on with the memory intact.
GLoopWith(t, s) ==
    /\ ~crashed
    /\ pc[t] = "g_loop"
    /\ IF local[t].i >= local[t].num_files
       THEN /\ pc' = [pc EXCEPT ![t] = "idle"]
            /\ EndCall(t, Res("Ok", None))
            /\ UNCHANGED <<cache, crashed>>
       ELSE \E survives \in BOOLEAN :
               /\ s.ub => ~survives
               /\ (~s.ub /\ ~s.freed) => survives
               /\ IF ~survives
                  THEN /\ crashed' = TRUE
                       /\ UNCHANGED <<cache, pc, local, db, hist>>
                  ELSE /\ cache' = s.cache
                       /\ UNCHANGED crashed
                       /\ IF s.status = "Hang"
                          THEN /\ pc' = [pc EXCEPT ![t] = "hung"]
                               /\ UNCHANGED <<local, db, hist>>
                          ELSE IF s.status = "Panic"
                          THEN /\ pc' = [pc EXCEPT ![t] = "panicked"]
                               /\ EndCall(t, Res("Panic", None))
                          ELSE IF s.status # "Ok"
                          THEN /\ pc' = [pc EXCEPT ![t] = "idle"]
                               /\ EndCall(t, Res(s.status, None))
                          ELSE IF IsSome(s.val)
                          THEN /\ pc' = [pc EXCEPT ![t] = "idle"]
                               /\ EndCall(t, GetMemValue(Unwrap(s.val)))
                          ELSE /\ local' = [local EXCEPT ![t] = [@ EXCEPT !.i = @ + 1]]
                               /\ UNCHANGED <<pc, db, hist>>
    /\ UNCHANGED <<dirVars, mem_table, flush_table, files, handle, syncVars, workerVars>>

\* the iteration of DB::get on the log file num_files - i - 1
NextFile(t) ==
    GetFromFile(cache, local[t].num_files - local[t].i - 1, local[t].key)

GLoop(t) == GLoopWith(t, NextFile(t))

(* ---------------------------------------------------------------------- *)
(* The system                                                              *)
(* ---------------------------------------------------------------------- *)
Next ==
    \/ \E t \in Apps : \E create_if_missing \in BOOLEAN : Open(t, create_if_missing)
    \/ \E t \in Apps : \E key \in Keys : \E value \in Vals : Put(t, key, value)
    \/ \E t \in Apps : \E key \in Keys : Delete(t, key)
    \/ \E t \in Apps : \E key \in Keys : Get(t, key)
    \/ \E t \in Apps : Close(t)
    \/ \E t \in Apps : Drop(t)
    \/ \E t \in Apps : SfStart(t)
    \/ \E t \in Apps : SfLock(t)
    \/ \E t \in Apps : SfStore(t)
    \/ \E t \in Apps : SfSignal(t)
    \/ \E t \in Apps : CLock(t)
    \/ \E t \in Apps : CSend(t)
    \/ \E t \in Apps : CSignal(t)
    \/ \E t \in Apps : CTake(t)
    \/ \E t \in Apps : CJoin(t)
    \/ \E t \in Apps : GSlot(t)
    \/ \E t \in Apps : GFiles(t)
    \/ \E t \in Apps : GLoop(t)
    \/ \E t \in DOMAIN pc : SpuriousWakeup(t)
    \/ WLock
    \/ WRecv
    \/ WTake
    \/ WAdd
    \/ WFlushDt
    \/ WFlushIx
    \/ WMeta
    \/ WIncr
    \/ WClear

Spec == Init /\ [][Next]_vars

(* ---------------------------------------------------------------------- *)
(* Properties                                                              *)
(* ---------------------------------------------------------------------- *)
\* the last call of thread t was `op` and it has returned
Returned(t, op) ==
    /\ pc[t] = "idle"
    /\ local[t].op = op
    /\ local[t].res.status # "none"

\* the count METADATA holds; a directory without METADATA counts as 0
MetaComplete == IsSome(metadata) /\ Len(Unwrap(metadata)) = 8
MetaCount == IF MetaComplete THEN ReadU64(Unwrap(metadata)) ELSE 0

\* the pcs at which the flush thread holds the mutex of cv_pair
WorkerBusy ==
    {"w_recv", "w_take", "w_add", "w_flush_dt", "w_flush_ix", "w_meta", "w_incr",
     "w_clear"}

\* C1 (as claimed): without I/O failure, a get(k) that returns after put(k, v)
\* was the last write to k on this engine returns Some(v).
C1_ReadYourWrites ==
    \A t \in Apps :
        (/\ Returned(t, "get")
         /\ hist.faults = 0
         /\ local[t].key \in hist.written
         /\ IsSome(hist.model[local[t].key]))
        => local[t].res = Res("Ok", hist.model[local[t].key])

\* C2 (as claimed): without I/O failure, a get(k) that returns after delete(k)
\* was the last write to k on this engine returns None.
C2_DeleteShadowing ==
    \A t \in Apps :
        (/\ Returned(t, "get")
         /\ hist.faults = 0
         /\ local[t].key \in hist.written
         /\ ~IsSome(hist.model[local[t].key]))
        => local[t].res = Res("Ok", None)

\* C3 (as claimed): on an engine re-opened after every earlier write was
\* followed by a close() that returned Ok, and before any write on the new
\* engine, every get(k) returns: it returns the value last put for k, or None
\* when k was deleted last or never written.
C3_Durability ==
    (hist.opens >= 2 /\ ~hist.lossy /\ hist.faults = 0 /\ hist.written = {})
    => /\ ~crashed
       /\ \A t \in Apps :
              Returned(t, "get") => local[t].res = Res("Ok", hist.model[local[t].key])

\* id names a log file whose .dt and .ix were both written in full
Published(id) ==
    /\ id \in DOMAIN dt
    /\ id \in DOMAIN ix
    /\ id \in hist.dtDone
    /\ id \in hist.ixDone
    /\ TableOpen(ReadFile(ix, id), id).status = "Ok"

\* C4: every id below `files`, and every id below the count a get has
\* loaded, names a log file whose .dt and .ix were written in full; after a
\* failed flush `files` is what it was when the flush began.
C4_Publication ==
    /\ db = "open" => \A id \in 0..(files - 1) : Published(id)
    /\ \A t \in Apps :
           pc[t] = "g_loop" => \A id \in 0..(local[t].num_files - 1) : Published(id)
    /\ hist.flushFailed => files = hist.filesAtTake

\* a get has loaded a count of at least one on an engine whose flush failed
C4_Witness ==
    /\ hist.flushFailed
    /\ \E t \in Apps : pc[t] = "g_loop" /\ local[t].num_files >= 1

\* C5: with one application thread, start_flushing stores into flush_table
\* only when it is None and to_flush is false (the assertion never fails, a
\* freeze waits while to_flush is set); the engine sets to_flush only when it is
\* false and the flush thread clears it only when it is true; an occupied
\* flush_table is always announced by to_flush or about to be.
C5_OneFreezeInFlight ==
    /\ \A t \in Apps :
        /\ pc[t] = "sf_store" => (~IsSome(flush_table) /\ ~to_flush)
        /\ pc[t] \in {"sf_signal", "c_signal"} => ~to_flush
        /\ pc[t] = "sf_wait" => to_flush
        /\ pc[t] # "panicked"
    /\ pc[FlushThread] \in WorkerBusy => to_flush
    /\ IsSome(flush_table) => (to_flush \/ \E t \in Apps : pc[t] = "sf_signal")

\* a freeze is blocked behind a frozen table the flush thread has not drained
C5_Witness ==
    \E t \in Apps : pc[t] = "sf_wait" /\ IsSome(flush_table) /\ ~MemTableIsEmpty(mem_table)

\* C6 (as claimed): without I/O failure, the counter in METADATA (0 while the
\* file does not exist) equals `files` in every state of an open engine.
C6_MetadataEqualsCount ==
    (db = "open" /\ hist.faults = 0) => MetaCount = files

\* C6 (amended): while METADATA is absent or holds 8 bytes, its counter equals
\* `files`, except between the write of METADATA and the fetch_add, where it
\* is files + 1; and a complete counter is never followed by a smaller one.
C6_MetadataTracksCount ==
    /\ []((db = "open" /\ (MetaComplete \/ ~IsSome(metadata)))
            => MetaCount = files + (IF pc[FlushThread] = "w_incr" THEN 1 ELSE 0))
    /\ [][(MetaComplete /\ MetaComplete') => MetaCount' >= MetaCount]_vars

\* the flush thread has rewritten METADATA and not yet incremented `files`
C6_Witness ==
    /\ pc[FlushThread] = "w_incr"
    /\ files >= 1
    /\ MetaCount = files + 1

\* C7: without I/O failure, after k flushes on the directory the .ix files are
\* exactly those of ids 0..k-1 and the .dt files too (plus id k while flush
\* k+1 is between its two writes), the writer's next id is k also after a
\* re-open, and no existing file is ever written again; in every run the
\* writer never writes a file whose id is below `files` or the stored count.
C7_Contiguity ==
    /\ hist.faults = 0 =>
        /\ DOMAIN ix = 0..(hist.flushes - 1)
        /\ DOMAIN dt = 0..(hist.flushes - 1) \cup
               (IF pc[FlushThread] = "w_flush_ix" THEN {hist.flushes} ELSE {})
        /\ db = "open" => builder.file_no = hist.flushes
        /\ ~hist.rewritten
    /\ pc[FlushThread] \in {"w_flush_dt", "w_flush_ix"} =>
        /\ builder.file_no >= files
        /\ builder.file_no >= MetaCount

\* a second engine on the directory has flushed the log file of id 1
C7_Witness ==
    /\ hist.opens = 2
    /\ hist.faults = 0
    /\ hist.flushes = 2
    /\ DOMAIN ix = {0, 1}
    /\ builder.file_no = 2

\* C8: once a close() of the engine has returned Ok, every close() (or drop)
\* returns Ok at once, and its step leaves the directory, the count, the two
\* tables, the handle and the coordination state unchanged.
C8_CloseIdempotent ==
    /\ [](hist.closed =>
            \A t \in Apps : local[t].op \in {"close", "drop"} =>
                (pc[t] = "idle" /\ local[t].res = Res("Ok", None)))
    /\ [][(hist.closed /\ \E t \in Apps :
                /\ local'[t].op \in {"close", "drop"}
                /\ (local'[t] # local[t] \/ db' # db))
            => UNCHANGED <<dirVars, engineVars, syncVars, workerVars>>]_vars

\* a close() returned on a closed engine holding an unflushed put
C8_Witness ==
    \E t \in Apps :
        /\ hist.closed
        /\ Returned(t, "close")
        /\ ~handle
        /\ ~MemTableIsEmpty(mem_table)

\* C9 (as claimed): a put that returns after close() returned Ok returns an error.
C9_PutAfterCloseFails ==
    \A t \in Apps :
        (hist.closed /\ Returned(t, "put")) => local[t].res.status # "Ok"

\* C10 (as claimed): once a flush step has failed, a close() that returns
\* returns BackgroundFlushError.
C10_CloseReportsFlushError ==
    \A t \in Apps :
        (hist.flushFailed /\ (Returned(t, "close") \/ Returned(t, "drop")))
        => local[t].res.status = "BackgroundFlushError"

\* the cases in which the claim has open fail with InvalidName
OpenMustFail(create_if_missing) ==
    \/ path = "file"
    \/ path = "dir" /\ ~IsSome(metadata)
    \/ path = "absent" /\ ~create_if_missing

C12_GetNeverWaits ==
    \A t \in Apps :
        /\ pc[t] # "hung"
        /\ pc[t] = "g_loop" => local[t].i <= local[t].num_files
        /\ ~crashed =>
            /\ pc[t] = "g_slot" => ENABLED GSlot(t)
            /\ pc[t] = "g_files" => ENABLED GFiles(t)
            /\ pc[t] = "g_loop" => \E s \in {NextFile(t)} : ENABLED GLoopWith(t, s)
            /\ (db = "open" /\ pc[t] = "idle" /\ hist.gets < MaxGets)
                  => \A key \in Keys : ENABLED Get(t, key)

\* a get is reading log files while the flush thread, holding the mutex, is
\* between the write of a .dt file and the write of its .ix file
C12_Witness ==
    \E t \in Apps :
        /\ pc[t] = "g_loop"
        /\ local[t].num_files >= 1
        /\ local[t].i < local[t].num_files
        /\ pc[FlushThread] = "w_flush_ix"
        /\ cv_lock = "held"

\* what log file `id` holds for `key`, read from its two files on disk
FileLookup(id, key) ==
    LET o == TableOpen(ReadFile(ix, id), id) IN
    TableGet([file_no |-> o.file_no, index |-> o.index], key, ReadFile(dt, id))

\* the steps of a get of thread t follow the search order: mem_table, then
\* flush_table, then the log files from num_files - 1 down to 0; the first
\* stage holding the key ends the call with its value (None for a Delete)
GetStepInOrder(t) ==
    /\ (pc[t] = "idle" /\ hist'.gets = hist.gets + 1) =>
          LET key == local'[t].key IN
          IF key \in DOMAIN mem_table
          THEN pc'[t] = "idle" /\ local'[t].res = GetMemValue(mem_table[key])
          ELSE pc'[t] = "g_slot"
    /\ (pc[t] = "g_slot" /\ pc'[t] # "g_slot") =>
          LET key == local[t].key IN
          IF IsSome(flush_table) /\ key \in DOMAIN Unwrap(flush_table)
          THEN pc'[t] = "idle" /\ local'[t].res = GetMemValue(Unwrap(flush_table)[key])
          ELSE pc'[t] = "g_files"
    /\ (pc[t] = "g_files" /\ pc'[t] # "g_files") =>
          pc'[t] = "g_loop" /\ local'[t].num_files = files /\ local'[t].i = 0
    /\ (pc[t] = "g_loop" /\ ~crashed' /\ (pc'[t] # "g_loop" \/ local'[t] # local[t])) =>
          IF local[t].i >= local[t].num_files
          THEN pc'[t] = "idle" /\ local'[t].res = Res("Ok", None)
          ELSE LET r == FileLookup(local[t].num_files - local[t].i - 1, local[t].key) IN
               /\ r.status = "Ok"
               /\ IF IsSome(r.val)
                  THEN pc'[t] = "idle" /\ local'[t].res = GetMemValue(Unwrap(r.val))
                  ELSE pc'[t] = "g_loop" /\ local'[t].i = local[t].i + 1

\* C13 (as claimed): every get answers, and it answers from the first stage
\* holding the key in the order mem_table, flush_table, log files by descending
\* id (a value returns it, a Delete returns None, older stages are not
\* consulted); a get that returned while mem_table holds the key returned what
\* mem_table holds, whatever flush_table and the log files hold.
C13_SearchOrder ==
    /\ [](/\ ~crashed
          /\ \A t \in Apps :
                (Returned(t, "get") /\ local[t].key \in DOMAIN mem_table)
                => local[t].res = GetMemValue(mem_table[local[t].key]))
    /\ [][\A t \in Apps : GetStepInOrder(t)]_vars

(* ---------------------------------------------------------------------- *)
(* table.rs on its own: a MemTable written by TableBuilder and read back   *)
(* by Table                                                                *)
(* ---------------------------------------------------------------------- *)
\* the bytes keys and values are made of
Bytes == {0, 1}
\* longest key written
MaxKeyLen == 2
\* longest value written
MaxValLen == 2
\* largest number of entries of the table written
MaxEntries == 2

ByteSeqs(n) == UNION {[1..m -> Bytes] : m \in 0..n}

\* the MemValues a table may hold
MemValues == {MemValueValue(v) : v \in ByteSeqs(MaxValLen)} \cup {MemValueDelete}

\* the MemTables handed to the TableBuilder
MemTables ==
    UNION {[S -> MemValues] :
              S \in {S \in SUBSET ByteSeqs(MaxKeyLen) : Cardinality(S) <= MaxEntries}}

\* a MemTable, about to be written as log file 0 of an existing directory
InitTable ==
    /\ path = "dir"
    /\ dt = << >>
    /\ ix = << >>
    /\ metadata = None
    /\ db = "none"
    /\ mem_table \in MemTables
    /\ flush_table = None
    /\ cache = LRUCacheNew(cache_size)
    /\ files = 0
    /\ handle = FALSE
    /\ to_flush = FALSE
    /\ cv_lock = "free"
    /\ poisoned = FALSE
    /\ chan = 0
    /\ builder = TableBuilderNew(0)
    /\ table = mem_table
    /\ wresult = "Ok"
    /\ pc = (FlushThread :> "done") @@ (1 :> "tb_add")
    /\ local = <<NoCall>>
    /\ crashed = FALSE
    /\ hist = NoHist

\* TableBuilder::add for the entry into_iter yields next: any entry not yet added
TbAdd(t, key) ==
    /\ pc[t] = "tb_add"
    /\ key \in DOMAIN table
    /\ builder' = TableBuilderAdd(builder, key, table[key])
    /\ table' = MapRemove(table, key)
    /\ UNCHANGED <<dirVars, db, engineVars, syncVars, wresult, pc, local, crashed, hist>>

\* TableBuilder::flush once every entry is added
TbFlush(t) ==
    /\ pc[t] = "tb_add"
    /\ DOMAIN table = {}
    /\ dt' = (builder.file_no :> builder.data) @@ dt
    /\ ix' = (builder.file_no :> builder.index) @@ ix
    /\ builder' = TableBuilderReset(builder)
    /\ pc' = [pc EXCEPT ![t] = "tb_get"]
    /\ UNCHANGED <<path, metadata, db, engineVars, syncVars, table, wresult, local,
                   crashed, hist>>

\* Table::open of the file written, then Table::get(key)
TbGet(t, key) ==
    /\ pc[t] = "tb_get"
    /\ LET r == FileLookup(builder.file_no - 1, key) IN
       local' = [local EXCEPT ![t] =
                    [NoCall EXCEPT !.op = "get", !.key = key,
                                   !.res = Res(r.status, r.val)]]
    /\ UNCHANGED <<dirVars, db, engineVars, syncVars, workerVars, pc, crashed, hist>>

NextTable ==
    \/ \E t \in Apps : \E key \in ByteSeqs(MaxKeyLen) : TbAdd(t, key)
    \/ \E t \in Apps : TbFlush(t)
    \/ \E t \in Apps : \E key \in ByteSeqs(MaxKeyLen) : TbGet(t, key)

SpecTable == InitTable /\ [][NextTable]_vars

\* C14: for every MemTable, every order of add and every key, Table::get on
\* the log file written from it returns Ok with the MemValue the MemTable holds
\* for the key, and Ok(None) for a key it does not hold; and the index read
\* back holds exactly the keys of the MemTable.
C14_IndexRoundTrip ==
    \A t \in Apps :
        pc[t] = "tb_get" =>
            /\ DOMAIN TableOpen(ReadFile(ix, 0), 0).index = DOMAIN mem_table
            /\ TableOpen(ReadFile(ix, 0), 0).status = "Ok"
            /\ local[t].op = "get" =>
                  local[t].res = Res("Ok", MemTableGet(mem_table, local[t].key))

\* the empty value of a two-entry table, added after a longer value, was read back
C14_Witness ==
    \E t \in Apps :
        /\ pc[t] = "tb_get"
        /\ local[t].op = "get"
        /\ Cardinality(DOMAIN mem_table) = 2
        /\ local[t].res = Res("Ok", Some(MemValueValue(<< >>)))
        /\ ReadFile(dt, 0) = Some(Encode(<<1, 0>>) \o Encode(<< >>))

(* ---------------------------------------------------------------------- *)
(* cache.rs on its own: get and put calls on one LRUCache, next to a       *)
(* reference LRU map of the same capacity                                  *)
(* ---------------------------------------------------------------------- *)
\* largest capacity given to LRUCache::new
MaxCap == 2
\* largest key put into the cache
MaxCacheKey == 2

CacheKeys == 0..MaxCacheKey

\* the reference map: the live <<key, value>> pairs, most recently used first
RefHas(lru, key) == \E i \in DOMAIN lru : lru[i][1] = key

RefIndex(lru, key) == CHOOSE i \in DOMAIN lru : lru[i][1] = key

RefWithout(lru, key) ==
    IF RefHas(lru, key)
    THEN SubSeq(lru, 1, RefIndex(lru, key) - 1)
             \o SubSeq(lru, RefIndex(lru, key) + 1, Len(lru))
    ELSE lru

\* reference get: the value, and the entry moved to the front
RefGet(lru, key) ==
    IF RefHas(lru, key)
    THEN [ret |-> Some(lru[RefIndex(lru, key)][2]),
          lru |-> <<lru[RefIndex(lru, key)]>> \o RefWithout(lru, key)]
    ELSE [ret |-> None, lru |-> lru]

\* reference put: the entry goes to the front; a new key at full capacity
\* drops the last entry
RefPut(lru, cap, key, val) ==
    IF RefHas(lru, key) THEN <<<<key, val>>>> \o RefWithout(lru, key)
    ELSE IF Len(lru) = cap THEN <<<<key, val>>>> \o SubSeq(lru, 1, cap - 1)
    ELSE <<<<key, val>>>> \o lru

\* a new cache of some capacity, and the empty reference map
InitCache ==
    /\ path = "dir"
    /\ dt = << >>
    /\ ix = << >>
    /\ metadata = None
    /\ db = "none"
    /\ mem_table = MemTableNew
    /\ flush_table = None
    /\ cache \in {LRUCacheNew(cap) : cap \in 1..MaxCap}
    /\ files = 0
    /\ handle = FALSE
    /\ to_flush = FALSE
    /\ cv_lock = "free"
    /\ poisoned = FALSE
    /\ chan = 0
    /\ builder = TableBuilderNew(0)
    /\ table = MemTableNew
    /\ wresult = "Ok"
    /\ pc = (FlushThread :> "done") @@ (1 :> "cache")
    /\ local = <<NoCall>>
    /\ crashed = FALSE
    /\ hist = [lru |-> << >>, expect |-> None]

\* LRUCache::get(key); undefined behaviour kills the process
CacheGet(t, key) ==
    /\ ~crashed
    /\ pc[t] = "cache"
    /\ LET g == LRUCacheGet(cache, key)
           r == RefGet(hist.lru, key) IN
       IF g.ub
       THEN /\ crashed' = TRUE
            /\ UNCHANGED <<cache, local, hist>>
       ELSE /\ cache' = g.cache
            /\ local' = [local EXCEPT ![t] =
                   [NoCall EXCEPT !.op = "get", !.key = key, !.res = Res("Ok", g.ret)]]
            /\ hist' = [lru |-> r.lru, expect |-> r.ret]
            /\ UNCHANGED crashed
    /\ UNCHANGED <<dirVars, db, mem_table, flush_table, files, handle, syncVars,
                   workerVars, pc>>

\* LRUCache::put(key, val); undefined behaviour kills the process, and after
\* the use of a freed entry the build may also carry on with the memory intact
CachePut(t, key, val) ==
    /\ ~crashed
    /\ pc[t] = "cache"
    /\ LET p == LRUCachePut(cache, key, val) IN
       \E survives \in BOOLEAN :
          /\ p.ub => ~survives
          /\ (~p.ub /\ ~p.freed) => survives
          /\ IF ~survives
             THEN /\ crashed' = TRUE
                  /\ UNCHANGED <<cache, local, hist>>
             ELSE /\ cache' = p.cache
                  /\ local' = [local EXCEPT ![t] =
                         [NoCall EXCEPT !.op = "put", !.key = key, !.res = Res("Ok", p.ret)]]
                  /\ hist' = [lru |-> RefPut(hist.lru, cache.cap, key, val),
                              expect |-> RefGet(hist.lru, key).ret]
                  /\ UNCHANGED crashed
    /\ UNCHANGED <<dirVars, db, mem_table, flush_table, files, handle, syncVars,
                   workerVars, pc>>

NextCache ==
    \/ \E t \in Apps : \E key \in CacheKeys : CacheGet(t, key)
    \/ \E t \in Apps : \E key \in CacheKeys : \E val \in Vals : CachePut(t, key, val)

SpecCache == InitCache /\ [][NextCache]_vars

\* the keys of the entries reached from `p` by next links, up to the tail
\* sentinel; -1 stands for a walk that leaves the list or never ends
RECURSIVE LinkedKeys(_, _, _)
LinkedKeys(mem, p, n) ==
    IF p = TailPtr THEN {}
    ELSE IF n = 0 \/ ~IsEntry(mem, p) THEN {-1}
    ELSE {mem[p].key} \cup LinkedKeys(mem, mem[p].next, n - 1)

\* C15 (as claimed): after any sequence of get and put calls that the process
\* survived, the map holds at most cap entries and its keys are exactly the
\* keys of the entries linked from the head sentinel to the tail sentinel.
C15_CacheBounded ==
    ~crashed =>
        /\ Cardinality(DOMAIN cache.map) <= cache.cap
        /\ DOMAIN cache.map =
               LinkedKeys(cache.mem, cache.mem[HeadPtr].next,
                          Cardinality(DOMAIN cache.mem))

\* C16 (as claimed): no get or put follows a null or dangling link or uses a
\* freed entry; every get and put returns what the reference LRU map returns;
\* and the keys cached are the keys of the reference map, so that a put at
\* full capacity dropped exactly the least recently used entry.
C16_RefinesReferenceLRU ==
    /\ ~crashed
    /\ \A t \in Apps : local[t].op \in {"get", "put"} => local[t].res.val = hist.expect
    /\ DOMAIN cache.map = {hist.lru[i][1] : i \in DOMAIN hist.lru}

\* C17 (as claimed): a step of put(key, value) raises mem_table.size() by
\* |key| + |value|, also when the key is already held, and a step of
\* delete(key) raises it by |key|; the call goes on to start_flushing exactly
\* when the size it has reached is at least write_buffer_size.
C17_SizeEstimate ==
    [][\A t \in Apps : \A key \in Keys :
          /\ \A value \in Vals :
                Put(t, key, value) =>
                   /\ MemTableSize(mem_table') =
                          MemTableSize(mem_table) + Len(key) + Len(value)
                   /\ (pc'[t] = "sf_start")
                          <=> (MemTableSize(mem_table') >= write_buffer_size)
          /\ Delete(t, key) =>
                /\ MemTableSize(mem_table') = MemTableSize(mem_table) + Len(key)
                /\ (pc'[t] = "sf_start")
                       <=> (MemTableSize(mem_table') >= write_buffer_size)]_vars

(* ---------------------------------------------------------------------- *)
(* Progress: runs without I/O failure, under fair scheduling of the        *)
(* application threads and of the flush thread                             *)
(* ---------------------------------------------------------------------- *)
\* the step injects no I/O failure
NoFault == hist'.faults = hist.faults

\* a step of the flush thread
WorkerStep ==
    \/ WLock
    \/ WRecv
    \/ WTake
    \/ WAdd
    \/ WFlushDt /\ NoFault
    \/ WFlushIx /\ NoFault
    \/ WMeta /\ NoFault
    \/ WIncr
    \/ WClear

\* a step of application thread t inside put, delete or close, after the call
\* was made
AppStep(t) ==
    \/ SfStart(t)
    \/ SfLock(t)
    \/ SfStore(t)
    \/ SfSignal(t)
    \/ CLock(t)
    \/ CSend(t)
    \/ CSignal(t)
    \/ CTake(t)
    \/ CJoin(t)

\* the calls the application makes: open, put, delete and close
NextLive ==
    \/ \E t \in Apps : Open(t, TRUE)
    \/ \E t \in Apps : \E key \in Keys : \E value \in Vals : Put(t, key, value)
    \/ \E t \in Apps : \E key \in Keys : Delete(t, key)
    \/ \E t \in Apps : Close(t)
    \/ \E t \in Apps : AppStep(t)
    \/ \E t \in DOMAIN pc : SpuriousWakeup(t)
    \/ WorkerStep

\* every thread that can take a step of the call it is in eventually takes one
Fairness ==
    /\ WF_vars(WorkerStep)
    /\ \A t \in 1..2 : WF_vars(t \in Apps /\ AppStep(t))

InitLive == InitThreads(1) /\ path = "absent"

SpecLive == InitLive /\ [][NextLive]_vars /\ Fairness

\* thread t is inside start_flushing, called by put or delete
Freezing(t) ==
    /\ local[t].op \in {"put", "delete"}
    /\ pc[t] \in {"sf_start", "sf_lock", "sf_wait", "sf_store", "sf_signal"}

\* thread t is inside close
Closing(t) == local[t].op = "close" /\ pc[t] # "idle"

\* close has returned Ok with nothing left to flush and the flush thread joined
ClosedClean(t) ==
    /\ Returned(t, "close")
    /\ local[t].res = Res("Ok", None)
    /\ ~handle
    /\ pc[FlushThread] = "done"
    /\ MemTableIsEmpty(mem_table)
    /\ ~IsSome(flush_table)
    /\ files = hist.flushes

\* C18 (as claimed): with one application thread, fair scheduling and no I/O
\* failure, every put/delete that enters start_flushing returns, every close
\* returns Ok with the last table flushed and the flush thread joined, and the
\* application thread and the flush thread never both wait on the condvar.
C18_ProgressOneThread ==
    /\ [](\A t \in Apps :
             ~(pc[t] \in {"sf_wait", "c_wait"} /\ pc[FlushThread] = "w_wait"))
    /\ (Freezing(1) ~> pc[1] = "idle")
    /\ (Closing(1) ~> ClosedClean(1))


(* ---------------------------------------------------------------------- *)
(* Concurrent writers: two application threads share one engine and call   *)
(* put and delete                                                          *)
(* ---------------------------------------------------------------------- *)
\* a step of application thread t inside start_flushing
WriterStep(t) ==
    \/ SfStart(t)
    \/ SfLock(t)
    \/ SfStore(t)
    \/ SfSignal(t)

NextWriters ==
    \/ \E t \in Apps : Open(t, TRUE)
    \/ \E t \in Apps : \E key \in Keys : Put(t, key, <<11>>)
    \/ \E t \in Apps : \E key \in Keys : Delete(t, key)
    \/ \E t \in Apps : WriterStep(t)
    \/ \E t \in DOMAIN pc : SpuriousWakeup(t)
    \/ WorkerStep

InitWriters == InitThreads(2) /\ path = "absent"

SpecWriters == InitWriters /\ [][NextWriters]_vars /\ Fairness

\* a lost wake-up: to_flush is set, the flush thread waits on the condvar for
\* it, a writer waits on the condvar for its reset, and no other call is running
LostWakeup ==
    /\ to_flush
    /\ pc[FlushThread] = "w_wait"
    /\ \E t \in Apps : pc[t] = "sf_wait"
    /\ \A t \in Apps : pc[t] \in {"idle", "sf_wait"}

\* C19 (as claimed): with two threads calling put/delete concurrently and fair
\* scheduling, every call that enters start_flushing returns, a table stored
\* in flush_table with to_flush set is drained by the flush thread, and no
\* wake-up is lost.
C19_ProgressManyThreads ==
    /\ \A t \in 1..2 : Freezing(t) ~> pc[t] = "idle"
    /\ (to_flush /\ IsSome(flush_table)) ~> flush_table = None
    /\ []~LostWakeup

\* C20 (as claimed): with two threads calling put/delete concurrently, the
\* assertion of start_flushing never fails (flush_table is never poisoned by
\* its panic) and flush_table never holds an empty table.
C20_FreezeAssertion ==
    /\ ~IsPoisoned(flush_table)
    /\ IsSome(flush_table) => ~MemTableIsEmpty(Unwrap(flush_table))


(* ---------------------------------------------------------------------- *)
(* Concurrent close: two application threads share one engine and both     *)
(* call close                                                              *)
(* ---------------------------------------------------------------------- *)
NextClosers ==
    \/ \E t \in Apps : Open(t, TRUE)
    \/ \E t \in Apps : \E key \in Keys : Put(t, key, <<11>>)
    \/ \E t \in Apps : Close(t)
    \/ \E t \in Apps : AppStep(t)
    \/ \E t \in DOMAIN pc : SpuriousWakeup(t)
    \/ WorkerStep

InitClosers == InitThreads(2) /\ path = "absent"

SpecClosers == InitClosers /\ [][NextClosers]_vars /\ Fairness

\* the close call of thread t has ended, by a return or by a panic
CloseEnded(t) == local[t].op = "close" /\ pc[t] \in {"idle", "panicked"}

\* both threads are in, or have last made, a close call
BothClose == \A t \in 1..2 : local[t].op = "close"

\* C21 (as claimed): when two threads call close on the same engine, every
\* close that ends has returned Ok (no panic on the taken join handle, no
\* SendError), and under fair scheduling every close ends.  A close that
\* fails because the assertion of start_flushing failed is left to C20.
C21_ConcurrentClose ==
    /\ [](\A t \in 1..2 :
             (BothClose /\ CloseEnded(t) /\ ~IsPoisoned(flush_table))
                 => local[t].res = Res("Ok", None))
    /\ \A t \in 1..2 : (BothClose /\ Closing(t)) ~> CloseEnded(t)


(* ---------------------------------------------------------------------- *)
(* Table::open on a malformed index file: entries written by TableBuilder, *)
(* followed by one entry that is cut short or carries an unknown tag       *)
(* ---------------------------------------------------------------------- *)
\* the tag bytes FromPrimitive::from_u8 maps to no MemValueCode
UnknownTags == {2, 255}

\* the index bytes TableBuilder::add appends for (key, mv)
EntryBytes(b, key, mv) ==
    SubSeq(TableBuilderAdd(b, key, mv).index, Len(b.index) + 1,
           Len(TableBuilderAdd(b, key, mv).index))

\* <0>.ix ends inside the entry of `key`: only its first n bytes are there
IxTruncated(t, key, n) ==
    /\ pc[t] = "tb_add"
    /\ key \in DOMAIN table
    /\ n < Len(EntryBytes(builder, key, table[key]))
    /\ ix' = (0 :> builder.index \o SubSeq(EntryBytes(builder, key, table[key]), 1, n))
    /\ pc' = [pc EXCEPT ![t] = "ix_open"]
    /\ UNCHANGED <<path, dt, metadata, db, engineVars, syncVars, workerVars, local,
                   crashed, hist>>

\* <0>.ix holds the entry of `key` with the tag byte `tag`
IxUnknownTag(t, key, tag) ==
    /\ pc[t] = "tb_add"
    /\ key \in DOMAIN table
    /\ ix' = (0 :> builder.index \o [EntryBytes(builder, key, table[key])
                                        EXCEPT ![8 + Len(key) + 1] = tag])
    /\ pc' = [pc EXCEPT ![t] = "ix_open"]
    /\ UNCHANGED <<path, dt, metadata, db, engineVars, syncVars, workerVars, local,
                   crashed, hist>>

\* Table::open(db_name, 0)
IxOpen(t) ==
    /\ pc[t] = "ix_open"
    /\ local' = [local EXCEPT ![t] =
                    [NoCall EXCEPT !.op = "open",
                                   !.res = Res(TableOpen(ReadFile(ix, 0), 0).status, None)]]
    /\ pc' = [pc EXCEPT ![t] = "idle"]
    /\ UNCHANGED <<dirVars, db, engineVars, syncVars, workerVars, crashed, hist>>

NextIndex ==
    \/ \E t \in Apps : \E key \in ByteSeqs(MaxKeyLen) : TbAdd(t, key)
    \/ \E t \in Apps : \E key \in ByteSeqs(MaxKeyLen) :
           \E n \in 1..(8 + MaxKeyLen + 8) : IxTruncated(t, key, n)
    \/ \E t \in Apps : \E key \in ByteSeqs(MaxKeyLen) :
           \E tag \in UnknownTags : IxUnknownTag(t, key, tag)
    \/ \E t \in Apps : IxOpen(t)

SpecIndex == InitTable /\ [][NextIndex]_vars

\* C22 (as claimed): Table::open of an index file whose last entry is cut
\* short or carries an unknown tag byte returns DBCorruptionError; it does
\* not panic.
C22_MalformedIndex ==
    \A t \in Apps : Returned(t, "open") => local[t].res = Res("DBCorruptionError", None)


(* ---------------------------------------------------------------------- *)
(* Re-opening a directory that was created and closed without any write    *)
(* ---------------------------------------------------------------------- *)
\* the directory was created by an open of this run, no put or delete was
\* ever issued on it, and the last engine was closed with Ok and dropped
ClosedEmpty ==
    /\ db = "none"
    /\ hist.opens > 0
    /\ hist.writes = 0
    /\ hist.closed
    /\ hist.closeErr = "none"

\* C23 (as claimed): after open on an absent directory with create_if_missing
\* and close() with no put/delete in between, the next open succeeds and
\* starts with 0 log files.
C23_ReopenAfterEmptyClose ==
    [][\A t \in Apps : \A c \in BOOLEAN :
          (ClosedEmpty /\ Open(t, c)) =>
              (local'[t].res.status = "Ok" /\ db' = "open" /\ files' = 0)]_vars

====
